---- MODULE Spec2Model ----
(***************************************************************************)
(* Span / metric correlation in the three demo Flask servers               *)
(*   0001_simple_flask_otel_jaeger_xray/flask/app.py   (app "0001")        *)
(*   0002_simple_flask_otel_jaeger_xray/flask/app.py   (app "0002")        *)
(*   0100_distro/flask/app.py                          (app "0100")        *)
(* One of the three apps is deployed (chosen in Init).  Requests are       *)
(* served by worker threads; every handler is cut into steps at the        *)
(* points where a span is opened or closed, so that requests interleave.   *)
(* `now' is a per-request logical clock: every span start, span end and    *)
(* metric call takes the next tick, which stands for the timestamps the    *)
(* SDK puts on spans and samples.  The instruments are write-only for the  *)
(* apps: what a request has recorded is kept with the request, and leaves  *)
(* the model when its thread takes the next request.  The handlers of app  *)
(* 0001 are taken as served: its file calls FlaskInstrumentor at module    *)
(* level as 0002 does, without the import lines 0002 has.                  *)
(***************************************************************************)
EXTENDS Integers, Sequences, FiniteSets, TLC

\* ---------------------------------------------------------------- bounds
MaxRequests == 3

Threads == {"t1", "t2"}

\* ------------------------------------------------------ program constants
\* mutant (C2): the trigger compared against the other id that is requested
TriggerIdOther == CHOOSE n \in {7, 13} : n # 13

TriggerId == 13
\* mutant (C9): the loop written range(1, 3)
NumUsersShort == Len(<<1, 2>>)

NumUsers == 3

Apps == {"0001", "0002", "0100"}
UserIds == {7, 13}
Paths == {"/", "/health", "/user", "/simulate-error", "/performance-test",
          "/metrics", "/nope"}

Routes(a) ==
  CASE a = "0001" -> {"/", "/user", "/health"}
    [] a = "0002" -> {"/", "/health", "/user", "/simulate-error",
                      "/performance-test", "/metrics"}
    [] a = "0100" -> {"/"}

\* mutant (C6): another text in the raise statement
DemoMessageOther == "intentional error"

DemoMessage == "This is an intentional error for demonstration"
UserDetailsUrl == "https://api.example.com/user-details"

\* ------------------------------------------------------------ plain values
None == [none |-> TRUE]
NoExc == [type |-> "", msg |-> ""]
NoResp == [status |-> 0, body |-> None]
\* mutant (C4): exceptions raised without a message
ExcNoMessage(type, msg) == [type |-> type, msg |-> ""]

Exc(type, msg) == [type |-> type, msg |-> msg]

Digit(d) ==
  CASE d = 0 -> "0" [] d = 1 -> "1" [] d = 2 -> "2" [] d = 3 -> "3"
    [] d = 4 -> "4" [] d = 5 -> "5" [] d = 6 -> "6" [] d = 7 -> "7"
    [] d = 8 -> "8" [] d = 9 -> "9"

RECURSIVE IntStr(_)
IntStr(n) == IF n < 10 THEN Digit(n) ELSE IntStr(n \div 10) \o Digit(n % 10)

\* a label set is a set of <<key, value>> pairs
L1(k, v) == {<<k, v>>}
L2(k1, v1, k2, v2) == {<<k1, v1>>, <<k2, v2>>}
L3(k1, v1, k2, v2, k3, v3) == {<<k1, v1>>, <<k2, v2>>, <<k3, v3>>}

VARIABLES
  app,      \* which of the three apps is running
  served,   \* number of requests accepted so far
  pc,       \* thread -> position in the handler
  rid,      \* thread -> how many requests the thread has taken
  req,      \* thread -> [path, user_id] of that request
  loc,      \* thread -> the handler's local variables, and which functions
            \*           raised / caught an exception during the request
  spans,    \* thread -> spans the request's code has started, in start order
  ctx,      \* thread -> id <<request, index>> of the current span (index 0:
            \*           the server span FlaskInstrumentor made current)
  ambient,  \* thread -> status and events of that server span
  now,      \* thread -> logical clock of the request
  samples,  \* thread -> the samples the request has recorded into the
            \*           instruments, in call order
  resp      \* thread -> response returned (NoResp while the handler runs)

vars == <<app, served, pc, rid, req, loc, spans, ctx, ambient, now,
          samples, resp>>

\* ------------------------------------------------------------- instruments
\* Counter.add(1, labels) and Histogram.record(value, labels): one sample
Sample(l, instr, labels, at) ==
  Append(l, [instrument |-> instr, labels |-> labels, at |-> at])

\* ------------------------------------------------------------------- spans
\* tracer.start_as_current_span(name): the parent is the current span, the
\* context manager keeps the previous context as its token
NewSpan(t, name, attrs) ==
  [name |-> name, parent |-> ctx[t], token |-> ctx[t], start |-> now[t] + 1,
   end |-> 0, status |-> "UNSET", events |-> <<>>, attrs |-> attrs]

SetAttr(ss, k, key, val) ==
  [ss EXCEPT ![k].attrs = {a \in @ : a[1] # key} \cup {<<key, val>>}]

RecordException(ss, k, e) == [ss EXCEPT ![k].events = Append(@, e.msg)]

SetStatus(ss, k, st) == [ss EXCEPT ![k].status = st]

\* mutant (C3): the spans started with set_status_on_exception=False
ExitSpanNoStatus(ss, k, e, at) ==
  LET s1 == IF e = NoExc THEN ss ELSE RecordException(ss, k, e)
  IN  [s1 EXCEPT ![k].end = at]

\* leaving the with-block of span k at tick `at': an exception passing through
\* is recorded and sets the status to ERROR (record_exception and
\* set_status_on_exception default to True), then the span ends
ExitSpan(ss, k, e, at) ==
  LET s1 == IF e = NoExc THEN ss
            ELSE SetStatus(RecordException(ss, k, e), k, "ERROR")
  IN  [s1 EXCEPT ![k].end = at]

\* the request thread t serves
RequestId(t) == <<t, rid[t]>>

\* index of the span the running code holds as current
Cur(t) == ctx[t][2]

\* locals of a handler at entry
InitLoc ==
  [arg |-> 0, i |-> 0, start_time |-> 0, user_data |-> None, ret |-> None,
   results |-> <<>>, exc |-> NoExc, raised |-> <<>>, caught |-> <<>>]

Init ==
  /\ app \in Apps
  /\ served = 0
  /\ pc = [t \in Threads |-> "idle"]
  /\ rid = [t \in Threads |-> 0]
  /\ req = [t \in Threads |-> [path |-> "/", user_id |-> 0]]
  /\ loc = [t \in Threads |-> InitLoc]
  /\ spans = [t \in Threads |-> <<>>]
  /\ ctx = [t \in Threads |-> <<<<t, 0>>, 0>>]
  /\ ambient = [t \in Threads |-> [status |-> "UNSET", events |-> <<>>]]
  /\ now = [t \in Threads |-> 0]
  /\ samples = [t \in Threads |-> <<>>]
  /\ resp = [t \in Threads |-> NoResp]

\* ------------------------------------------------------- action fragments
Goto(t, l) == pc' = [pc EXCEPT ![t] = l]

Start(t, name, attrs) ==
  /\ spans' = [spans EXCEPT ![t] = Append(@, NewSpan(t, name, attrs))]
  /\ ctx' = [ctx EXCEPT ![t] = <<RequestId(t), Len(spans[t]) + 1>>]
  /\ now' = [now EXCEPT ![t] = @ + 1]

Respond(t, status, body) ==
  resp' = [resp EXCEPT ![t] = [status |-> status, body |-> body]]

\* --------------------------------------------------------- Flask dispatch
\* the handler a path is routed to; a path no route matches goes to the 404
\* error handler, which only app 0002 registers
Handler(path) ==
  CASE path \notin Routes(app) ->
         IF app = "0002" THEN "not_found" ELSE "flask_404"
    [] OTHER ->
         CASE path = "/" -> "hello"
           [] path = "/health" -> "health"
           [] path = "/user" -> "get_user"
           [] path = "/simulate-error" -> "simulate_error"
           [] path = "/performance-test" -> "performance_test"
           [] path = "/metrics" -> "get_metrics"

\* a worker thread takes a request; FlaskInstrumentor has made the server
\* span of the request the current span
Request(t, path, uid) ==
  /\ pc[t] \in {"idle", "done"}
  /\ served < MaxRequests
  /\ served' = served + 1
  /\ rid' = [rid EXCEPT ![t] = @ + 1]
  /\ req' = [req EXCEPT ![t] = [path |-> path, user_id |-> uid]]
  /\ loc' = [loc EXCEPT ![t] = InitLoc]
  /\ spans' = [spans EXCEPT ![t] = <<>>]
  /\ ctx' = [ctx EXCEPT ![t] = <<<<t, rid[t] + 1>>, 0>>]
  /\ ambient' = [ambient EXCEPT ![t] = [status |-> "UNSET", events |-> <<>>]]
  /\ now' = [now EXCEPT ![t] = 0]
  /\ samples' = [samples EXCEPT ![t] = <<>>]
  /\ resp' = [resp EXCEPT ![t] = NoResp]
  /\ Goto(t, Handler(path))
  /\ UNCHANGED app

\* ================================================================ app 0001
fake_db_query_enter(t) ==
  /\ app = "0001" /\ pc[t] = "fake_db_query"
  /\ Start(t, "db.query", {})
  /\ Goto(t, "db_query_body")
  /\ UNCHANGED <<app, served, rid, req, loc, ambient, samples, resp>>

\* the body of the with-block and its exit: user_id 13 raises RuntimeError
fake_db_query_return(t) ==
  /\ app = "0001" /\ pc[t] = "db_query_body"
  /\ LET k == Cur(t)
         user_id == loc[t].arg
         e == IF user_id = TriggerId
              THEN Exc("RuntimeError", "DB connection failed") ELSE NoExc
         a3 == SetAttr(SetAttr(SetAttr(spans[t], k, "db.system", "postgresql"),
                               k, "db.operation", "SELECT"),
                       k, "db.user_id", user_id)
     IN  /\ spans' = [spans EXCEPT ![t] = ExitSpan(a3, k, e, now[t] + 1)]
         /\ ctx' = [ctx EXCEPT ![t] = spans[t][k].token]
         /\ now' = [now EXCEPT ![t] = @ + 1]
         /\ IF e = NoExc
            THEN /\ loc' = [loc EXCEPT ![t].user_data =
                              [user_id |-> user_id, name |-> "alice"]]
                 /\ Goto(t, "fake_external_api")
            ELSE /\ loc' = [loc EXCEPT ![t].exc = e,
                                       ![t].raised = Append(@, "fake_db_query")]
                 /\ Goto(t, "get_user_return")
  /\ UNCHANGED <<app, served, rid, req, ambient, samples, resp>>

fake_external_api_enter(t) ==
  /\ app = "0001" /\ pc[t] = "fake_external_api"
  /\ Start(t, "external.api.call", {})
  /\ Goto(t, "external_api_body")
  /\ UNCHANGED <<app, served, rid, req, loc, ambient, samples, resp>>

\* random.random() < 0.3 is the input `fail'
fake_external_api_return(t, fail) ==
  /\ app = "0001" /\ pc[t] = "external_api_body"
  /\ LET k == Cur(t)
         e == IF fail THEN Exc("TimeoutError", "External API timeout")
              ELSE NoExc
         a3 == SetAttr(SetAttr(SetAttr(spans[t], k, "http.method", "GET"),
                               k, "http.url", "https://example.com/api"),
                       k, "latency", "uniform(0.1, 0.4)")
     IN  /\ spans' = [spans EXCEPT ![t] = ExitSpan(a3, k, e, now[t] + 1)]
         /\ ctx' = [ctx EXCEPT ![t] = spans[t][k].token]
         /\ now' = [now EXCEPT ![t] = @ + 1]
         /\ IF e = NoExc
            THEN loc' = [loc EXCEPT ![t].ret = [result |-> "ok"]]
            ELSE loc' = [loc EXCEPT ![t].exc = e,
                                    ![t].raised =
                                      Append(@, "fake_external_api")]
  /\ Goto(t, "get_user_return")
  /\ UNCHANGED <<app, served, rid, req, ambient, samples, resp>>

hello_v1_enter(t) ==
  /\ app = "0001" /\ pc[t] = "hello"
  /\ LET lbl == L1("endpoint", "/")
     IN  /\ samples' = [samples EXCEPT ![t] =
                      Sample(@, "app_requests_total", lbl, now[t] + 1)]
  /\ spans' = [spans EXCEPT ![t] =
                 Append(@, [NewSpan(t, "business.logic", {})
                              EXCEPT !.start = now[t] + 2])]
  /\ ctx' = [ctx EXCEPT ![t] = <<RequestId(t), Len(spans[t]) + 1>>]
  /\ now' = [now EXCEPT ![t] = @ + 2]
  /\ loc' = [loc EXCEPT ![t].start_time = now[t]]
  /\ Goto(t, "business_logic_body")
  /\ UNCHANGED <<app, served, rid, req, ambient, resp>>

hello_v1_return(t) ==
  /\ app = "0001" /\ pc[t] = "business_logic_body"
  /\ LET k == Cur(t)
     IN  /\ spans' = [spans EXCEPT ![t] =
               ExitSpan(SetAttr(@, k, "logic.step", "greeting"), k, NoExc,
                        now[t] + 1)]
         /\ ctx' = [ctx EXCEPT ![t] = spans[t][k].token]
  /\ samples' = [samples EXCEPT ![t] =
               Sample(@, "app_processing_time_ms", {}, now[t] + 2)]
  /\ now' = [now EXCEPT ![t] = @ + 2]
  /\ Respond(t, 200, [message |-> "Hello from Flask!"])
  /\ Goto(t, "done")
  /\ UNCHANGED <<app, served, rid, req, loc, ambient>>

get_user_v1_enter(t) ==
  /\ app = "0001" /\ pc[t] = "get_user"
  /\ LET lbl == L1("endpoint", "/user")
     IN  /\ samples' = [samples EXCEPT ![t] =
                      Sample(@, "app_requests_total", lbl, now[t] + 1)]
  /\ now' = [now EXCEPT ![t] = @ + 1]
  /\ loc' = [loc EXCEPT ![t].start_time = now[t], ![t].arg = req[t].user_id]
  /\ Goto(t, "fake_db_query")
  /\ UNCHANGED <<app, served, rid, req, spans, ctx, ambient, resp>>

\* trace.get_current_span() in the except clause; the spans of the work
\* units have ended, so it is the span that was current at entry
SetCurrentSpanError(t, e) ==
  IF Cur(t) = 0
  THEN /\ ambient' = [ambient EXCEPT ![t].events = Append(@, e.msg),
                                     ![t].status = "ERROR"]
       /\ UNCHANGED spans
  ELSE /\ spans' = [spans EXCEPT ![t] =
                      SetStatus(RecordException(@, Cur(t), e), Cur(t), "ERROR")]
       /\ UNCHANGED ambient

\* mutant (C1): processing_time.record at the end of the try block instead
\* of in a finally clause
get_user_v1_return_no_finally(t) ==
  /\ app = "0001" /\ pc[t] = "get_user_return"
  /\ LET e == loc[t].exc
         lbl == L1("endpoint", "/user")
     IN  IF e = NoExc
         THEN /\ Respond(t, 200, [user |-> loc[t].user_data,
                                  external |-> loc[t].ret])
              /\ samples' = [samples EXCEPT ![t] =
                           Sample(@, "app_processing_time_ms", lbl, now[t] + 1)]
              /\ now' = [now EXCEPT ![t] = @ + 1]
              /\ UNCHANGED <<loc, spans, ambient>>
         ELSE /\ SetCurrentSpanError(t, e)
              /\ Respond(t, 500, [error |-> e.msg])
              /\ samples' = [samples EXCEPT ![t] =
                           Sample(@, "app_errors_total", lbl, now[t] + 1)]
              /\ now' = [now EXCEPT ![t] = @ + 1]
              /\ loc' = [loc EXCEPT ![t].exc = NoExc,
                                    ![t].caught = Append(@, "get_user")]
  /\ Goto(t, "done")
  /\ UNCHANGED <<app, served, rid, req, ctx>>

\* the return of the try block, or the except clause, and the finally clause
get_user_v1_return(t) ==
  /\ app = "0001" /\ pc[t] = "get_user_return"
  /\ LET e == loc[t].exc
         lbl == L1("endpoint", "/user")
     IN  IF e = NoExc
         THEN /\ Respond(t, 200, [user |-> loc[t].user_data,
                                  external |-> loc[t].ret])
              /\ samples' = [samples EXCEPT ![t] =
                           Sample(@, "app_processing_time_ms", lbl, now[t] + 1)]
              /\ now' = [now EXCEPT ![t] = @ + 1]
              /\ UNCHANGED <<loc, spans, ambient>>
         ELSE /\ SetCurrentSpanError(t, e)
              /\ Respond(t, 500, [error |-> e.msg])
              /\ samples' = [samples EXCEPT ![t] =
                    Sample(Sample(@, "app_errors_total", lbl, now[t] + 1),
                           "app_processing_time_ms", lbl, now[t] + 2)]
              /\ now' = [now EXCEPT ![t] = @ + 2]
              /\ loc' = [loc EXCEPT ![t].exc = NoExc,
                                    ![t].caught = Append(@, "get_user")]
  /\ Goto(t, "done")
  /\ UNCHANGED <<app, served, rid, req, ctx>>

\* mutant (C7): health without its request_counter.add
health_v1_uncounted(t) ==
  /\ app = "0001" /\ pc[t] = "health"
  /\ Respond(t, 200, [status |-> "ok"])
  /\ Goto(t, "done")
  /\ UNCHANGED <<app, served, rid, req, loc, spans, ctx, ambient, now,
                 samples>>

health_v1(t) ==
  /\ app = "0001" /\ pc[t] = "health"
  /\ LET lbl == L1("endpoint", "/health")
     IN  /\ samples' = [samples EXCEPT ![t] =
                      Sample(@, "app_requests_total", lbl, now[t] + 1)]
  /\ now' = [now EXCEPT ![t] = @ + 1]
  /\ Respond(t, 200, [status |-> "ok"])
  /\ Goto(t, "done")
  /\ UNCHANGED <<app, served, rid, req, loc, spans, ctx, ambient>>

\* apps 0001 and 0100 register no 404 handler: Flask answers an unmatched
\* path itself, with its default HTML page, and no handler of the app runs
flask_404(t) ==
  /\ app \in {"0001", "0100"} /\ pc[t] = "flask_404"
  /\ Respond(t, 404, [html |-> "404 Not Found"])
  /\ Goto(t, "done")
  /\ UNCHANGED <<app, served, rid, req, loc, spans, ctx, ambient, now,
                 samples>>

Next1 ==
  \E t \in Threads :
    \/ fake_db_query_enter(t)
    \/ fake_db_query_return(t)
    \/ fake_external_api_enter(t)
    \/ \E fail \in BOOLEAN : fake_external_api_return(t, fail)
    \/ hello_v1_enter(t)
    \/ hello_v1_return(t)
    \/ get_user_v1_enter(t)
    \/ get_user_v1_return(t)
    \/ health_v1(t)
    \/ flask_404(t)

\* ================================================================ app 0100
hello_distro_enter(t) ==
  /\ app = "0100" /\ pc[t] = "hello"
  /\ Start(t, "hello-handler", {})
  /\ Goto(t, "hello_handler_body")
  /\ UNCHANGED <<app, served, rid, req, loc, ambient, samples, resp>>

hello_distro_return(t) ==
  /\ app = "0100" /\ pc[t] = "hello_handler_body"
  /\ spans' = [spans EXCEPT ![t] = ExitSpan(@, Cur(t), NoExc, now[t] + 1)]
  /\ ctx' = [ctx EXCEPT ![t] = spans[t][Cur(t)].token]
  /\ now' = [now EXCEPT ![t] = @ + 1]
  /\ Respond(t, 200, [text |-> "Hello from Flask with OTel!"])
  /\ Goto(t, "done")
  /\ UNCHANGED <<app, served, rid, req, loc, ambient, samples>>

Next3 ==
  \E t \in Threads : hello_distro_enter(t) \/ hello_distro_return(t)

\* ================================================================ app 0002
simulate_database_query_enter(t) ==
  /\ app = "0002" /\ pc[t] = "simulate_database_query"
  /\ Start(t, "database_query",
           L3("db.system", "postgresql",
              "db.statement", "SELECT * FROM users WHERE id = ?",
              "db.user_id", loc[t].arg))
  /\ Goto(t, "database_query_body")
  /\ UNCHANGED <<app, served, rid, req, loc, ambient, samples, resp>>

\* nothing in the try block raises: the except clause of lines 124-128 is
\* never entered; the result becomes user_data of process_user_data (step 1)
simulate_database_query_return(t) ==
  /\ app = "0002" /\ pc[t] = "database_query_body"
  /\ LET k == Cur(t)
         lbl == L2("operation", "select", "table", "users")
         result == [id |-> loc[t].arg,
                    name |-> "User_" \o IntStr(loc[t].arg),
                    email |-> "user" \o IntStr(loc[t].arg) \o "@example.com",
                    created_at |-> now[t] + 1]
     IN  /\ samples' = [samples EXCEPT ![t] =
                      Sample(@, "database_query_duration_seconds", lbl,
                             now[t] + 1)]
         /\ spans' = [spans EXCEPT ![t] =
                        ExitSpan(SetAttr(@, k, "db.result_rows", 1), k, NoExc,
                                 now[t] + 2)]
         /\ ctx' = [ctx EXCEPT ![t] = spans[t][k].token]
         /\ now' = [now EXCEPT ![t] = @ + 2]
         /\ loc' = [loc EXCEPT ![t].user_data = result]
  /\ Goto(t, "simulate_external_api_call")
  /\ UNCHANGED <<app, served, rid, req, ambient, resp>>

simulate_external_api_call_enter(t) ==
  /\ app = "0002" /\ pc[t] = "simulate_external_api_call"
  /\ Start(t, "external_api_call",
           L2("http.method", "GET", "http.url", UserDetailsUrl))
  /\ Goto(t, "external_api_call_body")
  /\ UNCHANGED <<app, served, rid, req, loc, ambient, samples, resp>>

\* random.random() < 0.2 is the input `fail'
simulate_external_api_call_return(t, fail) ==
  /\ app = "0002" /\ pc[t] = "external_api_call_body"
  /\ LET k == Cur(t)
         e == Exc("Exception",
                  "External API returned 500 Internal Server Error")
         lbl == L1("endpoint", UserDetailsUrl)
         response == [status |-> "success",
                      data |-> "Response from " \o UserDetailsUrl,
                      timestamp |-> now[t] + 1]
     IN  IF fail
         THEN /\ spans' = [spans EXCEPT ![t] =
                    ExitSpan(
                      SetAttr(SetAttr(RecordException(@, k, e), k,
                                      "http.status_code", 500),
                              k, "error", TRUE),
                      k, e, now[t] + 1)]
              /\ now' = [now EXCEPT ![t] = @ + 1]
              /\ loc' = [loc EXCEPT ![t].exc = e,
                                    ![t].raised =
                                      Append(@, "simulate_external_api_call")]
              /\ UNCHANGED samples
         ELSE /\ samples' = [samples EXCEPT ![t] =
                           Sample(@, "external_api_duration_seconds", lbl,
                                  now[t] + 1)]
              /\ spans' = [spans EXCEPT ![t] =
                    ExitSpan(SetAttr(@, k, "http.status_code", 200), k, NoExc,
                             now[t] + 2)]
              /\ now' = [now EXCEPT ![t] = @ + 2]
              /\ loc' = [loc EXCEPT ![t].ret = response]
  /\ ctx' = [ctx EXCEPT ![t] = spans[t][Cur(t)].token]
  /\ Goto(t, "process_user_data_step2")
  /\ UNCHANGED <<app, served, rid, req, ambient, resp>>

process_user_data_enter(t) ==
  /\ app = "0002" /\ pc[t] = "process_user_data"
  /\ Start(t, "process_user_data", L1("user.id", loc[t].arg))
  /\ Goto(t, "simulate_database_query")
  /\ UNCHANGED <<app, served, rid, req, loc, ambient, samples, resp>>

\* mutant (C5): step 2 without its inner try/except
process_user_data_step2_uncaught(t) ==
  /\ app = "0002" /\ pc[t] = "process_user_data_step2"
  /\ IF loc[t].exc = NoExc
     THEN /\ loc' = [loc EXCEPT
                 ![t].user_data = [f \in DOMAIN @ \cup {"additional_info"} |->
                                     IF f = "additional_info" THEN loc[t].ret
                                     ELSE @[f]],
                 ![t].ret = None]
          /\ Goto(t, "data_transformation")
     ELSE /\ UNCHANGED loc
          /\ Goto(t, "process_user_data_return")
  /\ UNCHANGED <<app, served, rid, req, spans, ctx, ambient, now, samples,
                 resp>>

\* step 2: the inner try/except around simulate_external_api_call
process_user_data_step2(t) ==
  /\ app = "0002" /\ pc[t] = "process_user_data_step2"
  /\ IF loc[t].exc = NoExc
     THEN loc' = [loc EXCEPT
            ![t].user_data = [f \in DOMAIN @ \cup {"additional_info"} |->
                                IF f = "additional_info" THEN loc[t].ret
                                ELSE @[f]],
            ![t].ret = None]
     ELSE loc' = [loc EXCEPT
            ![t].user_data = [f \in DOMAIN @ \cup {"additional_info"} |->
                                IF f = "additional_info" THEN None ELSE @[f]],
            ![t].exc = NoExc,
            ![t].caught = Append(@, "process_user_data")]
  /\ Goto(t, "data_transformation")
  /\ UNCHANGED <<app, served, rid, req, spans, ctx, ambient, now, samples,
                 resp>>

\* step 3: the data_transformation span
data_transformation_enter(t) ==
  /\ app = "0002" /\ pc[t] = "data_transformation"
  /\ Start(t, "data_transformation", L1("operation", "normalize"))
  /\ Goto(t, "data_transformation_body")
  /\ UNCHANGED <<app, served, rid, req, loc, ambient, samples, resp>>

\* mutant (C10): the data_transformation span ended by hand, the context
\* never detached
data_transformation_exit_no_detach(t) ==
  /\ app = "0002" /\ pc[t] = "data_transformation_body"
  /\ LET k == Cur(t)
         ud == loc[t].user_data
         processed_data ==
           [f \in DOMAIN ud \cup {"processed_at", "version"} |->
              CASE f = "processed_at" -> now[t]
                [] f = "version" -> "1.0"
                [] OTHER -> ud[f]]
     IN  /\ spans' = [spans EXCEPT ![t] =
               ExitSpan(SetAttr(@, k, "output.size",
                                Cardinality(DOMAIN processed_data)),
                        k, NoExc, now[t] + 1)]
         /\ now' = [now EXCEPT ![t] = @ + 1]
         /\ loc' = [loc EXCEPT ![t].ret = processed_data]
  /\ Goto(t, "process_user_data_return")
  /\ UNCHANGED <<app, served, rid, req, ctx, ambient, samples, resp>>

\* output.size is len(json.dumps(processed_data)); the model records the
\* number of top-level keys in its place
data_transformation_exit(t) ==
  /\ app = "0002" /\ pc[t] = "data_transformation_body"
  /\ LET k == Cur(t)
         ud == loc[t].user_data
         processed_data ==
           [f \in DOMAIN ud \cup {"processed_at", "version"} |->
              CASE f = "processed_at" -> now[t]
                [] f = "version" -> "1.0"
                [] OTHER -> ud[f]]
     IN  /\ spans' = [spans EXCEPT ![t] =
               ExitSpan(SetAttr(@, k, "output.size",
                                Cardinality(DOMAIN processed_data)),
                        k, NoExc, now[t] + 1)]
         /\ ctx' = [ctx EXCEPT ![t] = spans[t][k].token]
         /\ now' = [now EXCEPT ![t] = @ + 1]
         /\ loc' = [loc EXCEPT ![t].ret = processed_data]
  /\ Goto(t, "process_user_data_return")
  /\ UNCHANGED <<app, served, rid, req, ambient, samples, resp>>

\* where process_user_data returns to
Continuation(t) ==
  IF req[t].path = "/user" THEN "get_user_return" ELSE "process_user_i_exit"

\* the end of process_user_data: the metric and the return, or the except
\* clause of lines 221-225, and the exit of the process_user_data span
process_user_data_return(t) ==
  /\ app = "0002" /\ pc[t] = "process_user_data_return"
  /\ LET k == Cur(t)
         e == loc[t].exc
         lbl == L1("operation", "full_processing")
     IN  IF e = NoExc
         THEN /\ samples' = [samples EXCEPT ![t] =
                           Sample(@, "data_processing_duration_seconds", lbl,
                                  now[t] + 1)]
              /\ spans' = [spans EXCEPT ![t] =
                             ExitSpan(@, k, NoExc, now[t] + 2)]
              /\ now' = [now EXCEPT ![t] = @ + 2]
         ELSE /\ spans' = [spans EXCEPT ![t] =
                    ExitSpan(SetAttr(RecordException(@, k, e), k, "error",
                                     TRUE),
                             k, e, now[t] + 1)]
              /\ now' = [now EXCEPT ![t] = @ + 1]
              /\ UNCHANGED samples
  /\ ctx' = [ctx EXCEPT ![t] = spans[t][Cur(t)].token]
  /\ Goto(t, Continuation(t))
  /\ UNCHANGED <<app, served, rid, req, loc, ambient, resp>>

hello_v2(t) ==
  /\ app = "0002" /\ pc[t] = "hello"
  /\ LET lbl == L2("endpoint", "/", "method", "GET")
     IN  /\ samples' = [samples EXCEPT ![t] =
                      Sample(@, "api_requests_total", lbl, now[t] + 1)]
  /\ now' = [now EXCEPT ![t] = @ + 1]
  /\ Respond(t, 200,
             [message |-> "Flask + OpenTelemetry Sample API",
              version |-> "1.0",
              endpoints |-> <<"GET /health", "GET /user/<user_id>",
                              "GET /simulate-error",
                              "GET /performance-test">>])
  /\ Goto(t, "done")
  /\ UNCHANGED <<app, served, rid, req, loc, spans, ctx, ambient>>

health_v2(t) ==
  /\ app = "0002" /\ pc[t] = "health"
  /\ LET lbl == L2("endpoint", "/health", "method", "GET")
     IN  /\ samples' = [samples EXCEPT ![t] =
                      Sample(@, "api_requests_total", lbl, now[t] + 1)]
  /\ now' = [now EXCEPT ![t] = @ + 1]
  /\ Respond(t, 200, [status |-> "healthy", timestamp |-> now[t] + 1])
  /\ Goto(t, "done")
  /\ UNCHANGED <<app, served, rid, req, loc, spans, ctx, ambient>>

get_user_v2_enter(t) ==
  /\ app = "0002" /\ pc[t] = "get_user"
  /\ loc' = [loc EXCEPT ![t].start_time = now[t], ![t].arg = req[t].user_id]
  /\ Goto(t, "process_user_data")
  /\ UNCHANGED <<app, served, rid, req, spans, ctx, ambient, now, samples,
                 resp>>

\* after process_user_data: the rest of the try block, or the except clause
get_user_v2_return(t) ==
  /\ app = "0002" /\ pc[t] = "get_user_return"
  /\ LET e == loc[t].exc
         ok1 == L3("endpoint", "/user", "method", "GET", "status", "success")
         ok2 == L2("endpoint", "/user", "status", "success")
         er0 == L2("endpoint", "/user", "error_type", e.type)
         er1 == L3("endpoint", "/user", "method", "GET", "status", "error")
         er2 == L2("endpoint", "/user", "status", "error")
     IN  IF e = NoExc
         THEN /\ samples' = [samples EXCEPT ![t] =
                    Sample(Sample(@, "api_requests_total", ok1, now[t] + 1),
                           "api_request_duration_seconds", ok2, now[t] + 2)]
              /\ now' = [now EXCEPT ![t] = @ + 2]
              /\ Respond(t, 200, loc[t].ret)
              /\ UNCHANGED loc
         ELSE /\ samples' = [samples EXCEPT ![t] =
                    Sample(Sample(Sample(@,
                             "api_errors_total", er0, now[t] + 1),
                             "api_requests_total", er1, now[t] + 2),
                           "api_request_duration_seconds", er2, now[t] + 3)]
              /\ now' = [now EXCEPT ![t] = @ + 3]
              /\ Respond(t, 500, [error |-> "Internal Server Error",
                                  message |-> e.msg,
                                  timestamp |-> now[t] + 3])
              /\ loc' = [loc EXCEPT ![t].exc = NoExc,
                                    ![t].caught = Append(@, "get_user")]
  /\ Goto(t, "done")
  /\ UNCHANGED <<app, served, rid, req, spans, ctx, ambient>>

simulate_error_enter(t) ==
  /\ app = "0002" /\ pc[t] = "simulate_error"
  /\ Start(t, "simulated_error", L1("error.type", "intentional"))
  /\ Goto(t, "simulated_error_body")
  /\ UNCHANGED <<app, served, rid, req, loc, ambient, samples, resp>>

\* raise ValueError, the except clause, and the return out of the with-block
simulate_error_return(t) ==
  /\ app = "0002" /\ pc[t] = "simulated_error_body"
  /\ LET k == Cur(t)
         e == Exc("ValueError", DemoMessage)
         lbl == L2("endpoint", "/simulate-error", "error_type", "ValueError")
     IN  /\ samples' = [samples EXCEPT ![t] =
                      Sample(@, "api_errors_total", lbl, now[t] + 1)]
         /\ spans' = [spans EXCEPT ![t] =
               ExitSpan(SetAttr(RecordException(@, k, e), k, "error", TRUE),
                        k, NoExc, now[t] + 2)]
         /\ ctx' = [ctx EXCEPT ![t] = spans[t][k].token]
         /\ now' = [now EXCEPT ![t] = @ + 2]
         /\ loc' = [loc EXCEPT ![t].raised = Append(@, "simulate_error"),
                               ![t].caught = Append(@, "simulate_error")]
         /\ Respond(t, 500, [error |-> "Simulated Error", message |-> e.msg,
                             timestamp |-> now[t] + 1])
  /\ Goto(t, "done")
  /\ UNCHANGED <<app, served, rid, req, ambient>>

performance_test_enter(t) ==
  /\ app = "0002" /\ pc[t] = "performance_test"
  /\ Start(t, "performance_test", {})
  /\ loc' = [loc EXCEPT ![t].start_time = now[t] + 1, ![t].results = <<>>,
                        ![t].i = 1]
  /\ Goto(t, "process_user_i")
  /\ UNCHANGED <<app, served, rid, req, ambient, samples, resp>>

\* loop body: with tracer.start_as_current_span(f"process_user_{i}")
process_user_i_enter(t) ==
  /\ app = "0002" /\ pc[t] = "process_user_i"
  /\ Start(t, "process_user_" \o IntStr(loc[t].i), {})
  /\ loc' = [loc EXCEPT ![t].arg = loc[t].i]
  /\ Goto(t, "process_user_data")
  /\ UNCHANGED <<app, served, rid, req, ambient, samples, resp>>

\* results.append(user_data), the exit of the process_user_<i> span and the
\* next iteration of range(1, 4); an exception leaves the loop
process_user_i_exit(t) ==
  /\ app = "0002" /\ pc[t] = "process_user_i_exit"
  /\ LET k == Cur(t)
         e == loc[t].exc
     IN  /\ spans' = [spans EXCEPT ![t] = ExitSpan(@, k, e, now[t] + 1)]
         /\ ctx' = [ctx EXCEPT ![t] = spans[t][k].token]
         /\ now' = [now EXCEPT ![t] = @ + 1]
         /\ IF e = NoExc
            THEN /\ loc' = [loc EXCEPT ![t].results = Append(@, loc[t].ret),
                                       ![t].ret = None,
                                       ![t].i = @ + 1]
                 /\ Goto(t, IF loc[t].i < NumUsers THEN "process_user_i"
                            ELSE "performance_test_return")
            ELSE /\ UNCHANGED loc
                 /\ Goto(t, "performance_test_return")
  /\ UNCHANGED <<app, served, rid, req, ambient, samples, resp>>

\* after the loop: the rest of the try block, or the except clause, and the
\* exit of the performance_test span
performance_test_return(t) ==
  /\ app = "0002" /\ pc[t] = "performance_test_return"
  /\ LET k == Cur(t)
         e == loc[t].exc
         ok1 == L2("endpoint", "/performance-test", "status", "success")
         ok2 == L1("endpoint", "/performance-test")
         er0 == L2("endpoint", "/performance-test", "error_type", e.type)
     IN  IF e = NoExc
         THEN /\ samples' = [samples EXCEPT ![t] =
                    Sample(Sample(@, "api_requests_total", ok1, now[t] + 1),
                           "api_request_duration_seconds", ok2, now[t] + 2)]
              /\ spans' = [spans EXCEPT ![t] =
                             ExitSpan(@, k, NoExc, now[t] + 3)]
              /\ now' = [now EXCEPT ![t] = @ + 3]
              /\ Respond(t, 200,
                         [test |-> "performance",
                          users_processed |-> 3,
                          total_duration_seconds |->
                            now[t] - loc[t].start_time,
                          results |-> loc[t].results])
              /\ UNCHANGED loc
         ELSE /\ samples' = [samples EXCEPT ![t] =
                           Sample(@, "api_errors_total", er0, now[t] + 1)]
              /\ spans' = [spans EXCEPT ![t] =
                    ExitSpan(SetAttr(RecordException(@, k, e), k, "error",
                                     TRUE),
                             k, NoExc, now[t] + 2)]
              /\ now' = [now EXCEPT ![t] = @ + 2]
              /\ Respond(t, 500, [error |-> "Performance test failed",
                                  message |-> e.msg])
              /\ loc' = [loc EXCEPT ![t].exc = NoExc,
                                    ![t].caught = Append(@, "performance_test")]
  /\ ctx' = [ctx EXCEPT ![t] = spans[t][Cur(t)].token]
  /\ Goto(t, "done")
  /\ UNCHANGED <<app, served, rid, req, ambient>>

get_metrics(t) ==
  /\ app = "0002" /\ pc[t] = "get_metrics"
  /\ Respond(t, 200,
             [message |->
                "Metrics are available at http://otel-collector:8888/metrics",
              endpoints |-> <<"api_requests_total",
                              "api_request_duration_seconds",
                              "api_errors_total",
                              "data_processing_duration_seconds",
                              "database_query_duration_seconds",
                              "external_api_duration_seconds">>])
  /\ Goto(t, "done")
  /\ UNCHANGED <<app, served, rid, req, loc, spans, ctx, ambient, now,
                 samples>>

\* mutant (C8): the 404 handler labelling the error with the requested path
not_found_by_path(t) ==
  /\ app = "0002" /\ pc[t] = "not_found"
  /\ LET lbl == L2("endpoint", req[t].path, "error_type", "NotFound")
     IN  /\ samples' = [samples EXCEPT ![t] =
                      Sample(@, "api_errors_total", lbl, now[t] + 1)]
  /\ now' = [now EXCEPT ![t] = @ + 1]
  /\ Respond(t, 404, [error |-> "Not Found", path |-> req[t].path,
                      timestamp |-> now[t] + 1])
  /\ Goto(t, "done")
  /\ UNCHANGED <<app, served, rid, req, loc, spans, ctx, ambient>>

\* @app.errorhandler(404)
not_found(t) ==
  /\ app = "0002" /\ pc[t] = "not_found"
  /\ LET lbl == L2("endpoint", "unknown", "error_type", "NotFound")
     IN  /\ samples' = [samples EXCEPT ![t] =
                      Sample(@, "api_errors_total", lbl, now[t] + 1)]
  /\ now' = [now EXCEPT ![t] = @ + 1]
  /\ Respond(t, 404, [error |-> "Not Found", path |-> req[t].path,
                      timestamp |-> now[t] + 1])
  /\ Goto(t, "done")
  /\ UNCHANGED <<app, served, rid, req, loc, spans, ctx, ambient>>

Next2 ==
  \E t \in Threads :
    \/ simulate_database_query_enter(t)
    \/ simulate_database_query_return(t)
    \/ simulate_external_api_call_enter(t)
    \/ \E fail \in BOOLEAN : simulate_external_api_call_return(t, fail)
    \/ process_user_data_enter(t)
    \/ process_user_data_step2(t)
    \/ data_transformation_enter(t)
    \/ data_transformation_exit(t)
    \/ process_user_data_return(t)
    \/ hello_v2(t)
    \/ health_v2(t)
    \/ get_user_v2_enter(t)
    \/ get_user_v2_return(t)
    \/ simulate_error_enter(t)
    \/ simulate_error_return(t)
    \/ performance_test_enter(t)
    \/ process_user_i_enter(t)
    \/ process_user_i_exit(t)
    \/ performance_test_return(t)
    \/ get_metrics(t)
    \/ not_found(t)

Next ==
  \/ \E t \in Threads, path \in Paths :
       \E uid \in (IF path = "/user" THEN UserIds ELSE {0}) :
         Request(t, path, uid)
  \/ Next1
  \/ Next2
  \/ Next3

Spec == Init /\ [][Next]_vars

\* ================================================================== claims
Done(t) == pc[t] = "done"
Routed(t) == req[t].path \in Routes(app)

RequestCounter ==
  IF app = "0001" THEN "app_requests_total" ELSE "api_requests_total"
ErrorCounter ==
  IF app = "0001" THEN "app_errors_total" ELSE "api_errors_total"
DurationHistogram ==
  IF app = "0001" THEN "app_processing_time_ms"
  ELSE "api_request_duration_seconds"

\* the metric calls the request of thread t made on instrument instr
Calls(t, instr) == {i \in DOMAIN samples[t] : samples[t][i].instrument = instr}

SpansNamed(t, names) == {k \in DOMAIN spans[t] : spans[t][k].name \in names}

\* ---- C1
\* C1 as stated: every request to a defined route has recorded exactly one
\* sample into the request-duration histogram when its response is returned.
C1_EveryRouteOneDuration ==
  \A t \in Threads :
    Done(t) /\ Routed(t) => Cardinality(Calls(t, DurationHistogram)) = 1

\* the number of duration samples the code of each route records
DurationSamples(t) ==
  CASE req[t].path = "/user" /\ app \in {"0001", "0002"} -> 1
    [] req[t].path = "/" /\ app = "0001" -> 1
    [] req[t].path = "/performance-test" /\ app = "0002" ->
         IF resp[t].status = 200 THEN 1 ELSE 0
    [] OTHER -> 0

\* C1 amended: a request to /user/{id} (both apps, success and failure path),
\* to / of app 0001 and to /performance-test of app 0002 answered with 200 has
\* recorded exactly one duration sample when its response is returned; every
\* other request has recorded none; no request ever records two.
C1_DurationPerRoute ==
  \A t \in Threads :
    /\ Cardinality(Calls(t, DurationHistogram)) <= 1
    /\ Done(t) => Cardinality(Calls(t, DurationHistogram)) = DurationSamples(t)

C1_Witness ==
  \E t \in Threads :
    /\ Done(t) /\ req[t].path = "/user" /\ resp[t].status = 500
    /\ Cardinality(Calls(t, DurationHistogram)) = 1

\* ---- C2
\* the identifier of the user record in a 200 body of /user/{id}
UserRecordId(body) == IF app = "0001" THEN body.user.user_id ELSE body.id

IsUserRequest(t) == req[t].path = "/user" /\ app \in {"0001", "0002"}

\* C2 as stated: every /user/{id} request with id other than 13 is answered
\* 200 with a user record whose identifier is id, whatever the random failure
\* injection does.
C2_Always200 ==
  \A t \in Threads :
    Done(t) /\ IsUserRequest(t) /\ req[t].user_id # 13 =>
      /\ resp[t].status = 200
      /\ UserRecordId(resp[t].body) = req[t].user_id

\* C2 amended: for /user/{id} with id other than 13, app 0002 always answers
\* 200 with a record whose id is id; app 0001 answers 200 with a record whose
\* user_id is id unless its external call times out, and then it answers 500
\* with error "External API timeout".
C2_OkUnlessTimeout ==
  \A t \in Threads :
    Done(t) /\ IsUserRequest(t) /\ req[t].user_id # 13 =>
      \/ /\ resp[t].status = 200
         /\ UserRecordId(resp[t].body) = req[t].user_id
      \/ /\ app = "0001"
         /\ loc[t].raised = <<"fake_external_api">>
         /\ resp[t].status = 500
         /\ resp[t].body = [error |-> "External API timeout"]

C2_Witness ==
  \E t \in Threads :
    /\ Done(t) /\ app = "0001" /\ req[t] = [path |-> "/user", user_id |-> 7]
    /\ resp[t].status = 200
    /\ resp[t].body.user.user_id = 7

\* ---- C4
\* C4: a /user/{id} request in which a failure reaches the orchestrator (id
\* 13 in app 0001, or a raised failure that process_user_data did not absorb)
\* is caught by get_user and answered 500 with a non-empty error field and
\* exactly one error-counter increment; a request answered 200 increments the
\* error counter zero times.
C4_OrchestratorCatches ==
  \A t \in Threads :
    Done(t) /\ IsUserRequest(t) =>
      /\ loc[t].exc = NoExc
      /\ (app = "0001" /\ req[t].user_id = 13 =>
            loc[t].raised = <<"fake_db_query">>)
      /\ (Len(loc[t].raised) > Len(SelectSeq(loc[t].caught,
                                    LAMBDA c : c = "process_user_data")) =>
            /\ loc[t].caught = <<"get_user">>
            /\ resp[t].status = 500
            /\ resp[t].body.error # ""
            /\ Cardinality(Calls(t, ErrorCounter)) = 1)
      /\ (resp[t].status = 200 => Calls(t, ErrorCounter) = {})
      /\ resp[t].status \in {200, 500}

C4_Witness ==
  \E t \in Threads :
    /\ Done(t) /\ app = "0001" /\ req[t] = [path |-> "/user", user_id |-> 13]
    /\ resp[t].status = 500
    /\ Cardinality(Calls(t, ErrorCounter)) = 1

\* ---- C5
ExternalFailed(t) ==
  \E i \in DOMAIN loc[t].raised :
    loc[t].raised[i] \in {"fake_external_api", "simulate_external_api_call"}

\* C5 as stated: a /user/{id} request whose external call failed is still
\* answered 200 with the user record and a null external-data field, the
\* failure having been caught below the orchestrator.
C5_ExternalIsBestEffort ==
  \A t \in Threads :
    Done(t) /\ IsUserRequest(t) /\ ExternalFailed(t) =>
      /\ resp[t].status = 200
      /\ loc[t].caught = <<"process_user_data">>

\* C5 amended: in app 0002 a failed external call is caught in
\* process_user_data, additional_info is null and the request is answered 200
\* with the user record; in app 0001 the failure is caught by get_user itself
\* and the request is answered 500.
C5_BestEffortIn0002 ==
  \A t \in Threads :
    Done(t) /\ IsUserRequest(t) /\ ExternalFailed(t) =>
      IF app = "0002"
      THEN /\ resp[t].status = 200
           /\ loc[t].caught = <<"process_user_data">>
           /\ resp[t].body.additional_info = None
           /\ resp[t].body.id = req[t].user_id
      ELSE /\ resp[t].status = 500
           /\ loc[t].caught = <<"get_user">>

C5_Witness ==
  \E t \in Threads :
    /\ Done(t) /\ app = "0002" /\ req[t].path = "/user"
    /\ loc[t].raised = <<"simulate_external_api_call">>
    /\ resp[t].status = 200
    /\ resp[t].body.additional_info = None

\* ---- C6
IsSimulateError(t) == req[t].path = "/simulate-error" /\ app = "0002"

\* C6 as stated: /simulate-error always answers 500 and the `error' field of
\* the body is the fixed demonstration message.
C6_ErrorFieldIsMessage ==
  \A t \in Threads :
    Done(t) /\ IsSimulateError(t) =>
      /\ resp[t].status = 500
      /\ resp[t].body.error =
           "This is an intentional error for demonstration"

\* C6 amended: /simulate-error always answers 500; the `message' field of the
\* body is the fixed demonstration message and the `error' field is
\* "Simulated Error".
C6_MessageField ==
  \A t \in Threads :
    Done(t) /\ IsSimulateError(t) =>
      /\ resp[t].status = 500
      /\ resp[t].body.message =
           "This is an intentional error for demonstration"
      /\ resp[t].body.error = "Simulated Error"

\* a /simulate-error request served by a thread that served an earlier
\* request
C6_Witness ==
  \E t \in Threads :
    /\ Done(t) /\ IsSimulateError(t) /\ rid[t] >= 2
    /\ resp[t].status = 500

\* ---- C7
HasEndpointLabel(t, i) == <<"endpoint", req[t].path>> \in samples[t][i].labels

\* C7 as stated: every route's handler has incremented the request counter,
\* labeled with the route, exactly once, as the first thing the request did.
C7_CountedAtEntry ==
  \A t \in Threads :
    Done(t) /\ Routed(t) /\ req[t].path # "/metrics" =>
      /\ Cardinality(Calls(t, RequestCounter)) = 1
      /\ \A i \in Calls(t, RequestCounter) :
           samples[t][i].at = 1 /\ HasEndpointLabel(t, i)

\* C7 amended: every route of app 0001, and / and /health of app 0002,
\* increment the request counter exactly once, labeled with the route, before
\* anything else; /user/{id} of app 0002 increments it exactly once, labeled
\* with the route and the outcome, after the work sequence has ended;
\* /performance-test increments it once, after the three users, when it
\* answers 200 and not at all when it answers 500; /simulate-error, /metrics
\* and / of app 0100 never increment it.
C7_CountedPerRoute ==
  \A t \in Threads :
    Done(t) /\ Routed(t) =>
      LET rc == Calls(t, RequestCounter)
          after == \A i \in rc :
                     /\ HasEndpointLabel(t, i)
                     /\ \A k \in DOMAIN spans[t] :
                          spans[t][k].name # "performance_test" =>
                            spans[t][k].end # 0 /\ spans[t][k].end < samples[t][i].at
      IN  CASE app = "0001" \/ (app = "0002" /\ req[t].path \in {"/", "/health"})
                 -> /\ Cardinality(rc) = 1
                    /\ \A i \in rc :
                         /\ samples[t][i].at = 1
                         /\ HasEndpointLabel(t, i)
                         /\ \A k \in DOMAIN spans[t] : spans[t][k].start > 1
            [] app = "0002" /\ req[t].path = "/user"
                 -> /\ Cardinality(rc) = 1
                    /\ after
                    /\ spans[t] # <<>>
                    /\ \A i \in rc :
                         <<"status", IF resp[t].status = 200 THEN "success"
                                     ELSE "error">> \in samples[t][i].labels
            [] app = "0002" /\ req[t].path = "/performance-test"
                 -> /\ Cardinality(rc) = (IF resp[t].status = 200 THEN 1 ELSE 0)
                    /\ after
            [] OTHER -> rc = {}

C7_Witness ==
  \E t \in Threads :
    /\ Done(t) /\ app = "0001" /\ req[t].path = "/user"
    /\ resp[t].status = 500
    /\ Cardinality(Calls(t, RequestCounter)) = 1
    /\ samples[t][1].instrument = RequestCounter

\* ---- C8
\* C8 as stated: a request whose path matches no route is answered 404 with
\* a body that holds the requested path, and the error counter is
\* incremented once under the endpoint label "unknown".
C8_NotFoundEverywhere ==
  \A t \in Threads :
    Done(t) /\ ~Routed(t) =>
      /\ resp[t].status = 404
      /\ "path" \in DOMAIN resp[t].body
      /\ Cardinality(Calls(t, ErrorCounter)) = 1

\* C8 amended: in app 0002 a request whose path matches no route is answered
\* 404 with a body that holds the requested path, and the error counter is
\* incremented once under the endpoint label "unknown"; apps 0001 and 0100
\* register no 404 handler, the framework answers 404 itself and no metric is
\* touched.
C8_NotFoundIn0002 ==
  \A t \in Threads :
    Done(t) /\ ~Routed(t) =>
      /\ resp[t].status = 404
      /\ IF app = "0002"
         THEN /\ "path" \in DOMAIN resp[t].body
              /\ resp[t].body.path = req[t].path
              /\ resp[t].body.error = "Not Found"
              /\ Cardinality(Calls(t, ErrorCounter)) = 1
              /\ \A i \in Calls(t, ErrorCounter) :
                   <<"endpoint", "unknown">> \in samples[t][i].labels
         ELSE /\ "path" \notin DOMAIN resp[t].body
              /\ samples[t] = <<>>

C8_Witness ==
  \E t \in Threads :
    /\ Done(t) /\ app = "0002" /\ req[t].path = "/nope"
    /\ resp[t].status = 404
    /\ resp[t].body.path = "/nope"
    /\ samples[t] = <<[instrument |-> "api_errors_total",
                       labels |-> L2("endpoint", "unknown",
                                     "error_type", "NotFound"),
                       at |-> 1]>>

\* ---- C3
UpperSpanNames ==
  {"process_user_data", "performance_test", "process_user_1",
   "process_user_2", "process_user_3"}

IsPerformanceTest(t) == req[t].path = "/performance-test" /\ app = "0002"

ChildName == <<"process_user_1", "process_user_2", "process_user_3">>

\* the spans of thread t's request whose parent is span p
ChildrenOf(t, p) == {k \in DOMAIN spans[t] : spans[t][k].parent[2] = p}

\* span k has exactly one child of that name, and it has ended
OneEndedChild(t, k, name) ==
  /\ Cardinality(ChildrenOf(t, k) \cap SpansNamed(t, {name})) = 1
  /\ \A c \in ChildrenOf(t, k) \cap SpansNamed(t, {name}) :
       spans[t][c].end # 0

InnermostOpen(t) ==
  LET open == {k \in DOMAIN spans[t] : spans[t][k].end = 0}
  IN  IF open = {} THEN <<RequestId(t), 0>>
      ELSE <<RequestId(t), CHOOSE k \in open : \A j \in open : j <= k>>

\* C10: under every interleaving of the requests, the current span of a
\* request is its open span started last (the server span when none is
\* open); the parent of each span is a span of the same request, namely the
\* one that was current when it started; spans end in LIFO order; and when
\* the response is returned every span of the request has ended and the
\* current span is the one of entry.
C10_PerRequestStack ==
  \A t \in Threads :
    /\ ctx[t] = InnermostOpen(t)
    /\ \A k \in DOMAIN spans[t] :
         LET s == spans[t][k]
             p == s.parent[2]
         IN  /\ s.parent[1] = RequestId(t)
             /\ p < k
             /\ s.end # 0 => s.start < s.end
             /\ p # 0 =>
                  /\ spans[t][p].start < s.start
                  /\ spans[t][p].end # 0 =>
                       s.end # 0 /\ s.end < spans[t][p].end
             /\ \A j \in (p + 1)..(k - 1) :
                  spans[t][j].end # 0 /\ spans[t][j].end < s.start
             /\ \A j \in 1..(k - 1) :
                  spans[t][j].end # 0 /\ s.start < spans[t][j].end =>
                    s.end # 0 /\ s.end < spans[t][j].end
    /\ Done(t) =>
         /\ \A k \in DOMAIN spans[t] : spans[t][k].end # 0
         /\ ctx[t] = <<RequestId(t), 0>>

\* two requests in flight at once, each three spans deep, one of them past
\* a failed external call
C10_Witness ==
  \E t, u \in Threads :
    /\ t # u /\ rid[t] # 0 /\ rid[u] # 0
    /\ Cardinality({k \in DOMAIN spans[t] : spans[t][k].end = 0}) >= 3
    /\ Cardinality({k \in DOMAIN spans[u] : spans[u][k].end = 0}) >= 3
    /\ loc[u].caught = <<"process_user_data">>

====
